---- MODULE Spec2Model ----
(***************************************************************************)
(* The finite-domain constraint solver of Assignment.py (class CSP): the   *)
(* constraint store, AC-3 (inference / revise) and the backtracking        *)
(* search, as a state machine.                                             *)
(*                                                                         *)
(* Python dictionaries and lists are objects that are shared by reference. *)
(* The dictionaries of domains (self.domains, every 'assignment' and every *)
(* 'assignment_copy') live in the heap objs, keyed by a reference, so that *)
(* copy.deepcopy is an operation whose absence would be observable.        *)
(***************************************************************************)
EXTENDS Integers, Sequences, FiniteSets, TLC

VARIABLES
  variables,        \* self.variables: the names, in registration order
  objs,             \* heap of domain dictionaries; objs[SelfDomains] is self.domains
  constraints,      \* self.constraints[i][j]: the legal pairs of (i, j)
  applied,          \* log of the registrations made: triples <<i, j, predicate>>
  ncalls,           \* number of constraint registration calls made
  backtrack_called, \* self.backtrack_called
  backtrack_failed, \* self.backtrack_failed
  pc,               \* where the program is
  stack,            \* the active backtrack invocations, outermost first
  queue_set,        \* the work-set of the running inference call
  inf_asg,          \* the reference the running inference call was given
  inf_start,        \* the arguments of the last inference call, as given
  inf_ret,          \* the value the last inference call returned
  pre_ret,          \* the value the preprocessing inference call returned
  retval,           \* the value a backtrack invocation is returning
  result            \* the value backtracking_search returned

vars == <<variables, objs, constraints, applied, ncalls, backtrack_called,
          backtrack_failed, pc, stack, queue_set, inf_asg, inf_start, inf_ret,
          pre_ret, retval, result>>

----------------------------------------------------------------------------
(* Bounds of the model and the inputs the operations are called with.      *)

\* the identifiers add_variable is called with, in this order
Names == <<"a", "b", "c">>

\* candidate values are 1 .. MaxVal
MaxVal == 2

\* at most MaxCalls constraint registrations are made
MaxCalls == 2

Values == 1..MaxVal

\* the domains add_variable is called with: the non-empty lists of distinct
\* values, in any order
DomainInputs ==
  {d \in UNION {[1..n -> Values] : n \in 1..MaxVal} :
     \A m, n \in 1..Len(d) : m # n => d[m] # d[n]}

\* the filter functions add_constraint_one_way is called with
Preds == {"ne", "eq", "lt"}

Holds(p, x, y) ==
  CASE p = "ne" -> x # y
    [] p = "eq" -> x = y
    [] p = "lt" -> x < y

\* reference of the dictionary self.domains
SelfDomains == 0

\* what a field holds that holds no reference, and Python's None
NoRef == SelfDomains - 1
None == "None"

\* what a call returns: False, a dictionary by its reference, or nothing yet
ReturnedFalse == [kind |-> "False", ref |-> NoRef]
ReturnedDict(r) == [kind |-> "dict", ref |-> r]
NotReturned == [kind |-> None, ref |-> NoRef]

----------------------------------------------------------------------------
(* Helpers on lists and dictionaries.                                      *)

Range(s) == {s[k] : k \in 1..Len(s)}

\* list.remove(x): drops the first occurrence of x
RemoveFirst(s, x) ==
  LET k == CHOOSE n \in 1..Len(s) : s[n] = x /\ \A m \in 1..(n - 1) : s[m] # x
  IN  [n \in 1..(Len(s) - 1) |-> IF n < k THEN s[n] ELSE s[n + 1]]

\* self.domains
domains == objs[SelfDomains]

\* itertools.product(a, b), as the set of its pairs
get_all_possible_pairs(a, b) == Range(a) \X Range(b)

\* [(i, j) for i in self.constraints for j in self.constraints[i]]
get_all_arcs ==
  {arc \in (DOMAIN constraints) \X Range(variables) : arc[2] \in DOMAIN constraints[arc[1]]}

\* [(i, var) for i in self.constraints[var]]
get_all_neighboring_arcs(var) == {<<i, var>> : i \in DOMAIN constraints[var]}

----------------------------------------------------------------------------
(* ConstraintStore: add_variable, add_constraint_one_way,                  *)
(* add_all_different_constraint.                                           *)

\* add_constraint_one_way without "if not j in self.constraints[i]": every
\* call starts from all the pairs again
FilteredRelationFromAllPairs(cons, i, j, p) ==
  {pair \in get_all_possible_pairs(domains[i], domains[j]) : Holds(p, pair[1], pair[2])}

\* the relation add_constraint_one_way leaves for (i, j), in the store cons
FilteredRelation(cons, i, j, p) ==
  LET old == IF j \in DOMAIN cons[i]
             THEN cons[i][j]
             ELSE get_all_possible_pairs(domains[i], domains[j])
  IN  {pair \in old : Holds(p, pair[1], pair[2])}

\* the store after add_constraint_one_way(i, j, p)
OneWay(cons, i, j, p) ==
  [cons EXCEPT ![i] = (j :> FilteredRelation(cons, i, j, p)) @@ cons[i]]

\* the store after add_constraint_one_way over the pairs of 'todo', in order
RECURSIVE AllDifferent(_, _)
AllDifferent(cons, todo) ==
  IF todo = <<>> THEN cons
  ELSE LET i == Head(todo)[1]
           j == Head(todo)[2]
       IN  AllDifferent(IF i # j THEN OneWay(cons, i, j, "ne") ELSE cons, Tail(todo))

\* itertools.product(vs, vs), as the list it yields
RECURSIVE PairList(_, _)
PairList(vs, k) ==
  IF k > Len(vs) * Len(vs) THEN <<>>
  ELSE <<  <<vs[((k - 1) \div Len(vs)) + 1], vs[((k - 1) % Len(vs)) + 1]>>  >>
       \o PairList(vs, k + 1)

solveVars == <<backtrack_called, backtrack_failed, stack, queue_set, inf_asg,
               inf_start, inf_ret, pre_ret, retval, result>>

add_variable(name, domain) ==
  /\ pc = "build"
  /\ Len(variables) < Len(Names)
  /\ name = Names[Len(variables) + 1]
  /\ variables' = Append(variables, name)
  /\ objs' = [objs EXCEPT ![SelfDomains] = (name :> domain) @@ objs[SelfDomains]]
  /\ constraints' = (name :> <<>>) @@ constraints
  /\ UNCHANGED <<applied, ncalls, pc, solveVars>>

add_constraint_one_way(i, j, p) ==
  /\ pc = "build"
  /\ ncalls < MaxCalls
  /\ i \in Range(variables) /\ j \in Range(variables)
  /\ constraints' = OneWay(constraints, i, j, p)
  /\ applied' = applied \cup {<<i, j, p>>}
  /\ ncalls' = ncalls + 1
  /\ UNCHANGED <<variables, objs, pc, solveVars>>

add_all_different_constraint(vs) ==
  /\ pc = "build"
  /\ ncalls < MaxCalls
  /\ Range(vs) \subseteq Range(variables)
  /\ constraints' = AllDifferent(constraints, PairList(vs, 1))
  /\ applied' = applied \cup {<<arc[1], arc[2], "ne">> :
                                arc \in {a \in Range(vs) \X Range(vs) : a[1] # a[2]}}
  /\ ncalls' = ncalls + 1
  /\ UNCHANGED <<variables, objs, pc, solveVars>>

\* the lists add_all_different_constraint is called with: the registered
\* names in registration order, any two or more of them
GroupInputs ==
  {vs \in UNION {[1..n -> Range(variables)] : n \in 2..Len(Names)} :
     \A k \in 1..(Len(vs) - 1) :
        \E m, n \in 1..Len(variables) : m < n /\ variables[m] = vs[k] /\ variables[n] = vs[k + 1]}

Init ==
  /\ variables = <<>>
  /\ objs = (SelfDomains :> <<>>)
  /\ constraints = <<>>
  /\ applied = {}
  /\ ncalls = 0
  /\ backtrack_called = 0
  /\ backtrack_failed = 0
  /\ pc = "build"
  /\ stack = <<>>
  /\ queue_set = {}
  /\ inf_asg = NoRef
  /\ inf_start = None
  /\ inf_ret = None
  /\ pre_ret = None
  /\ retval = NotReturned
  /\ result = NotReturned

\* a relation is a set of pairs, and list(filter(...)) keeps no trace of the
\* order of a domain: for the store alone every non-empty set of values is
\* declared, as the list of its values in ascending order
SortedInputs == {d \in DomainInputs : \A k \in 1..(Len(d) - 1) : d[k] < d[k + 1]}

NextStore ==
  \/ \E name \in Range(Names), domain \in SortedInputs : add_variable(name, domain)
  \/ \E i, j \in Range(Names), p \in Preds : i # j /\ add_constraint_one_way(i, j, p)
  \/ \E vs \in GroupInputs : add_all_different_constraint(vs)

SpecStore == Init /\ [][NextStore]_vars

----------------------------------------------------------------------------
(* ArcConsistencyEngine: revise and inference (AC-3).                      *)

\* one pass of "for x in assignment[i]" from list position idx on: the list
\* iterator reads position idx of the list as it is now, so a remove() shifts
\* the rest of the list under it.  self.constraints[i][j] is looked up only
\* when some y of assignment[j] is tried; a missing key raises KeyError.
RECURSIVE ReviseFrom(_, _, _, _, _)
ReviseFrom(asg, i, j, idx, revised) ==
  IF idx > Len(asg[i])
  THEN [asg |-> asg, revised |-> revised, error |-> FALSE]
  ELSE LET x == asg[i][idx] IN
       IF Len(asg[j]) > 0 /\ j \notin DOMAIN constraints[i]
       THEN [asg |-> asg, revised |-> revised, error |-> TRUE]
       ELSE IF ~ \E k \in 1..Len(asg[j]) : <<x, asg[j][k]>> \in constraints[i][j]
            THEN ReviseFrom([asg EXCEPT ![i] = RemoveFirst(asg[i], x)], i, j, idx + 1, TRUE)
            ELSE ReviseFrom(asg, i, j, idx + 1, revised)

revise(asg, i, j) == ReviseFrom(asg, i, j, 1, FALSE)

\* "if len(assignment[xi]) <= 1" in the place of "== 0"
DomainEmptiedOrDecided(asg, xi) == Len(asg[xi]) <= 1

\* "if len(assignment[xi]) == 0" of inference
DomainEmptied(asg, xi) == Len(asg[xi]) = 0

\* the state of an inference call after queue_set.pop() gave arc
\*   ret: "None" while the loop goes on, else the value returned;
\*   "KeyError" when revise raised
InferencePop(asg, queue, arc) ==
  LET xi   == arc[1]
      r    == revise(asg, xi, arc[2])
      rest == queue \ {arc}
  IN  IF r.error
      THEN [asg |-> r.asg, queue |-> rest, ret |-> "KeyError"]
      ELSE IF r.revised /\ DomainEmptied(r.asg, xi)
      THEN [asg |-> r.asg, queue |-> rest, ret |-> "False"]
      ELSE LET q == IF r.revised THEN rest \cup get_all_neighboring_arcs(xi) ELSE rest
           IN  [asg |-> r.asg, queue |-> q, ret |-> IF q = {} THEN "True" ELSE None]

----------------------------------------------------------------------------
(* BacktrackingSearch: backtracking_search and backtrack.                  *)

\* "assignment = src" in the place of a copy: the same dictionary
DeepcopyAlias(src) == src

\* copy.deepcopy(objs[src]): the reference of the new dictionary
Deepcopy(src) == CHOOSE r \in 1..(Cardinality(DOMAIN objs) + 1) : r \notin DOMAIN objs

\* "assignment_copy[unassigned_variable].append(value)" in the place of the
\* assignment of [value]
AssignValueAppend(asg, var, value) == [asg EXCEPT ![var] = Append(asg[var], value)]

\* assignment_copy[unassigned_variable] = [value]
AssignValue(asg, var, value) == [asg EXCEPT ![var] = <<value>>]

assignment_is_done(asg) == \A v \in DOMAIN asg : ~ (Len(asg[v]) > 1)

\* min(undecided_variables, key=len): the first of the smallest, in the
\* order of the dictionary, which is the order of registration
select_unassigned_variable(asg) ==
  LET undecided == {k \in 1..Len(variables) : Len(asg[variables[k]]) > 1}
      best == CHOOSE k \in undecided :
                \A m \in undecided :
                   \/ Len(asg[variables[k]]) < Len(asg[variables[m]])
                   \/ Len(asg[variables[k]]) = Len(asg[variables[m]]) /\ k <= m
  IN  variables[best]

order_domain_values(var, asg) == asg[var]

\* "if result:" on a returned value: False and the empty dictionary are falsy
Truthy(rv) == rv.kind = "dict" /\ DOMAIN objs[rv.ref] # {}

\* the dictionaries still referenced: garbage is dropped from the heap
Live(stk, rv, extra) ==
  {SelfDomains} \cup {stk[k].asg : k \in 1..Len(stk)} \cup {rv.ref} \cup extra
Collect(h, live) == [r \in (DOMAIN h) \cap live |-> h[r]]

Frame(r) == [asg |-> r, var |-> None, idx |-> 0, copy |-> NoRef]

\* the call self.inference(ref, queue) up to its first pop
CallInference(h, r, queue) ==
  /\ objs' = h
  /\ inf_asg' = r
  /\ inf_start' = [asg |-> h[r], queue |-> queue]
  /\ queue_set' = queue
  /\ IF queue = {}
     THEN inf_ret' = "True" /\ pc' = "returned"
     ELSE inf_ret' = None /\ pc' = "inference"

backtracking_search ==
  /\ pc = "build"
  /\ LET r == Deepcopy(SelfDomains)
     IN  CallInference((r :> objs[SelfDomains]) @@ objs, r, get_all_arcs)
  /\ UNCHANGED <<variables, constraints, applied, ncalls, backtrack_called,
                 backtrack_failed, stack, pre_ret, retval, result>>

\* one iteration of the while loop of inference, with the return that ends it
inference ==
  /\ pc = "inference"
  /\ \E arc \in queue_set :
       LET s == InferencePop(objs[inf_asg], queue_set, arc) IN
         /\ objs' = [objs EXCEPT ![inf_asg] = s.asg]
         /\ queue_set' = s.queue
         /\ inf_ret' = s.ret
         /\ pc' = CASE s.ret = None -> "inference"
                    [] s.ret = "KeyError" -> "error"
                    [] OTHER -> "returned"
  /\ UNCHANGED <<variables, constraints, applied, ncalls, backtrack_called,
                 backtrack_failed, stack, inf_asg, inf_start, pre_ret, retval, result>>

\* backtracking_search after its inference call: the value is dropped and
\* backtrack(assignment) is called
call_backtrack ==
  /\ pc = "returned"
  /\ stack = <<>>
  /\ pre_ret' = inf_ret
  /\ stack' = <<Frame(inf_asg)>>
  /\ pc' = "backtrack"
  /\ UNCHANGED <<variables, objs, constraints, applied, ncalls, backtrack_called,
                 backtrack_failed, queue_set, inf_asg, inf_start, inf_ret, retval, result>>

\* backtrack up to its for loop
backtrack ==
  /\ pc = "backtrack"
  /\ backtrack_called' = backtrack_called + 1
  /\ LET f == stack[Len(stack)]
         asg == objs[f.asg]
     IN  IF assignment_is_done(asg)
         THEN /\ retval' = ReturnedDict(f.asg)
              /\ stack' = SubSeq(stack, 1, Len(stack) - 1)
              /\ pc' = "return"
         ELSE /\ stack' = [stack EXCEPT ![Len(stack)] =
                             [f EXCEPT !.var = select_unassigned_variable(asg), !.idx = 1]]
              /\ pc' = "loop"
              /\ UNCHANGED retval
  /\ UNCHANGED <<variables, objs, constraints, applied, ncalls, backtrack_failed,
                 queue_set, inf_asg, inf_start, inf_ret, pre_ret, result>>

\* the head of the for loop of backtrack: the next value is copied, assigned
\* and propagated, or the loop is over and the invocation fails
try_value ==
  /\ pc = "loop"
  /\ LET f == stack[Len(stack)]
         values == order_domain_values(f.var, objs[f.asg])
     IN  IF f.idx <= Len(values)
         THEN LET r == Deepcopy(f.asg)
                  copied == (r :> objs[f.asg]) @@ objs
              IN  /\ stack' = [stack EXCEPT ![Len(stack)] = [f EXCEPT !.copy = r]]
                  /\ CallInference([copied EXCEPT ![r] = AssignValue(copied[r], f.var, values[f.idx])],
                                   r, get_all_neighboring_arcs(f.var))
                  /\ UNCHANGED <<backtrack_failed, retval>>
         ELSE /\ backtrack_failed' = backtrack_failed + 1
              /\ retval' = ReturnedFalse
              /\ stack' = SubSeq(stack, 1, Len(stack) - 1)
              /\ pc' = "return"
              /\ objs' = Collect(objs, Live(stack', retval', {}))
              /\ UNCHANGED <<queue_set, inf_asg, inf_start, inf_ret>>
  /\ UNCHANGED <<variables, constraints, applied, ncalls, backtrack_called,
                 pre_ret, result>>

\* the for loop of backtrack after its inference call: recurse, or go on
after_inference ==
  /\ pc = "returned"
  /\ stack # <<>>
  /\ LET f == stack[Len(stack)] IN
       IF inf_ret = "True"
       THEN /\ stack' = Append(stack, Frame(f.copy))
            /\ pc' = "backtrack"
            /\ UNCHANGED objs
       ELSE /\ stack' = [stack EXCEPT ![Len(stack)] =
                           [f EXCEPT !.idx = f.idx + 1, !.copy = NoRef]]
            /\ pc' = "loop"
            /\ objs' = Collect(objs, Live(stack', retval, {}))
  /\ UNCHANGED <<variables, constraints, applied, ncalls, backtrack_called,
                 backtrack_failed, queue_set, inf_asg, inf_start, inf_ret, pre_ret,
                 retval, result>>

\* a backtrack invocation returns: to the for loop of its caller ("if
\* result: return result"), or from backtracking_search
return ==
  /\ pc = "return"
  /\ IF stack = <<>>
     THEN /\ result' = retval
          /\ pc' = "done"
          /\ UNCHANGED <<stack, objs>>
     ELSE LET f == stack[Len(stack)] IN
          IF Truthy(retval)
          THEN /\ stack' = SubSeq(stack, 1, Len(stack) - 1)
               /\ objs' = Collect(objs, Live(stack', retval, {}))
               /\ UNCHANGED <<pc, result>>
          ELSE /\ stack' = [stack EXCEPT ![Len(stack)] =
                              [f EXCEPT !.idx = f.idx + 1, !.copy = NoRef]]
               /\ objs' = Collect(objs, Live(stack', retval, {}))
               /\ pc' = "loop"
               /\ UNCHANGED result
  /\ UNCHANGED <<variables, constraints, applied, ncalls, backtrack_called,
                 backtrack_failed, queue_set, inf_asg, inf_start, inf_ret, pre_ret,
                 retval>>

Next ==
  \/ \E name \in Range(Names), domain \in DomainInputs : add_variable(name, domain)
  \/ \E i, j \in Range(Names), p \in Preds : i # j /\ add_constraint_one_way(i, j, p)
  \/ \E vs \in GroupInputs : add_all_different_constraint(vs)
  \/ backtracking_search
  \/ inference
  \/ call_backtrack
  \/ backtrack
  \/ try_value
  \/ after_inference
  \/ return

Spec == Init /\ [][Next]_vars

\* the steps of backtracking_search once it is called
Solve ==
  \/ inference
  \/ call_backtrack
  \/ backtrack
  \/ try_value
  \/ after_inference
  \/ return

\* a call of backtracking_search runs on while it has a step to take: the
\* interpreter does not stop a sequential program that waits for nothing
LiveSpec == Spec /\ WF_vars(Solve)

----------------------------------------------------------------------------
(* Notions the properties are stated with.                                 *)

\* the position of a name in the order of registration
Pos(v) == CHOOSE k \in 1..Len(variables) : variables[k] = v

\* every value of every domain of asg has a support across every arc
Supported(asg, i, j, x) == \E y \in Range(asg[j]) : <<x, y>> \in constraints[i][j]
ArcConsistent(asg) ==
  \A arc \in get_all_arcs : \A x \in Range(asg[arc[1]]) : Supported(asg, arc[1], arc[2], x)

\* asg decides both ends of the arc and the relation of the arc has the pair
Decided(asg, v) == Len(asg[v]) = 1
ArcSatisfied(asg, arc) == <<asg[arc[1]][1], asg[arc[2]][1]>> \in constraints[arc[1]][arc[2]]

\* asg is a solution: one value for every variable, every relation satisfied
IsSolution(asg) ==
  /\ \A v \in Range(variables) : Decided(asg, v)
  /\ \A arc \in get_all_arcs : ArcSatisfied(asg, arc)

\* enumeration of every combination of values finds a solution
BruteForceSolvable ==
  \E f \in [Range(variables) -> Values] :
     /\ \A v \in Range(variables) : f[v] \in Range(domains[v])
     /\ \A arc \in get_all_arcs : <<f[arc[1]], f[arc[2]]>> \in constraints[arc[1]][arc[2]]

\* both directions are registered for every constrained pair
BothDirections == \A arc \in get_all_arcs : <<arc[2], arc[1]>> \in get_all_arcs

Undecided(asg) == Cardinality({v \in DOMAIN asg : Len(asg[v]) > 1})

\* inference with the arcs popped in the order of registration of their
\* variables: one of the orders queue_set.pop() may follow
RECURSIVE InferenceInOrder(_, _)
InferenceInOrder(asg, queue) ==
  IF queue = {} THEN [asg |-> asg, queue |-> queue, ret |-> "True"]
  ELSE LET arc == CHOOSE a \in queue :
                    \A b \in queue :
                       \/ Pos(a[1]) < Pos(b[1])
                       \/ Pos(a[1]) = Pos(b[1]) /\ Pos(a[2]) <= Pos(b[2])
           s == InferencePop(asg, queue, arc)
       IN  IF s.ret = None THEN InferenceInOrder(s.asg, s.queue) ELSE s

----------------------------------------------------------------------------
(* The properties.                                                         *)

\* C1: when the preprocessing inference call returns False, solve returns
\* no-solution at once: backtrack is not invoked and no assignment is returned.
C1_PreprocessFailureEndsSolve ==
  pre_ret = "False" =>
    /\ backtrack_called = 0
    /\ pc # "backtrack"
    /\ pc = "done" => result.kind = "False"

\* C2: in an assignment that solve returns, every registered arc between two
\* decided variables has its pair of values in the relation of the arc.
C2_Soundness ==
  (pc = "done" /\ result.kind = "dict") =>
    \A arc \in get_all_arcs :
       (Decided(objs[result.ref], arc[1]) /\ Decided(objs[result.ref], arc[2]))
          => ArcSatisfied(objs[result.ref], arc)

\* C3: solve returns a solution exactly when enumeration finds one, and
\* returns no-solution, never an assignment, when there is none.
C3_Completeness ==
  pc = "done" =>
    /\ (result.kind = "dict" /\ IsSolution(objs[result.ref])) <=> BruteForceSolvable
    /\ ~ BruteForceSolvable => result.kind = "False"

\* C4: when inference over the full arc set returns True the assignment is
\* arc-consistent for every registered arc, and one revise(assignment, i, j)
\* leaves no value of domain(i) without a support in domain(j).
C4_ArcConsistencyEnforced ==
  /\ (pc = "returned" /\ stack = <<>> /\ inf_ret = "True") => ArcConsistent(objs[inf_asg])
  /\ pc = "inference" =>
       \A arc \in get_all_arcs :
          LET r == revise(objs[inf_asg], arc[1], arc[2])
          IN  \A x \in Range(r.asg[arc[1]]) : Supported(r.asg, arc[1], arc[2], x)

\* C5: get_all_neighboring_arcs(v) is exactly the set of the registered arcs
\* whose target is v.
C5_NeighboringArcsAreArcsInto ==
  \A v \in Range(variables) :
     get_all_neighboring_arcs(v) = {arc \in get_all_arcs : arc[2] = v}

\* a step of solve leaves self.domains and the assignment of every invocation
\* on the stack as they are, and a candidate starts on a new dictionary that
\* is the assignment of its invocation with the one variable assigned
IsolationStep ==
  pc' # "build" =>
    /\ objs'[SelfDomains] = objs[SelfDomains]
    /\ \A k \in 1..Len(stack) :
          k <= Len(stack') =>
            /\ stack'[k].asg = stack[k].asg
            /\ objs'[stack[k].asg] = objs[stack[k].asg]
    /\ (pc = "loop" /\ pc' \in {"inference", "returned"}) =>
          LET f == stack[Len(stack)] IN
            /\ inf_asg' \notin DOMAIN objs
            /\ objs'[inf_asg'] = [objs[f.asg] EXCEPT ![f.var] = <<objs[f.asg][f.var][f.idx]>>]
            /\ \A v \in DOMAIN inf_start'.asg : v # f.var => inf_start'.asg[v] = objs[f.asg][v]

\* C6: no step of solve changes self.domains or the assignment a backtrack
\* invocation on the stack was given: a candidate is tried on a copy, and the
\* next candidate is copied from the unchanged assignment of the caller.
C6_BranchIsolation == [][IsolationStep]_vars

\* a failed candidate lies behind and its sibling is being propagated, in a
\* nested invocation
C6_Witness ==
  /\ pc = "inference"
  /\ Len(stack) >= 2
  /\ stack[Len(stack)].idx >= 2
  /\ objs[inf_asg] # inf_start.asg

\* after a step every domain is within the declared one and within what it
\* was before the step; a new copy is within the dictionary it is made from
MonotoneStep ==
  \A r \in (DOMAIN objs') \ {SelfDomains} :
     \A v \in DOMAIN objs'[r] :
        /\ Range(objs'[r][v]) \subseteq Range(objs'[SelfDomains][v])
        /\ LET from == IF r \in DOMAIN objs THEN r
                       ELSE IF stack = <<>> THEN SelfDomains
                       ELSE stack[Len(stack)].asg
           IN  /\ Range(objs'[r][v]) \subseteq Range(objs[from][v])
               /\ Len(objs'[r][v]) <= Len(objs[from][v])

\* C7: every domain of every assignment is within the declared domain, a
\* dictionary never gains a value or grows from one step to the next, and a
\* copy starts within the assignment it is copied from.
C7_DomainMonotonicity == [][MonotoneStep]_vars

\* a revise step has removed a value of another variable from the copy a
\* candidate is tried on
C7_Witness ==
  /\ pc = "inference"
  /\ stack # <<>>
  /\ \E v \in Range(variables) :
        /\ v # stack[Len(stack)].var
        /\ Len(objs[inf_asg][v]) < Len(objs[stack[Len(stack)].asg][v])

\* C8: every order of popping the arcs gives the value and, when the value
\* is True, the domains that popping them in the order of registration gives.
\* Stated for the stores with both directions registered, where no lookup of
\* a relation can fail in any order.
C8_OrderIndependence ==
  (pc = "returned" /\ BothDirections) =>
    LET s == InferenceInOrder(inf_start.asg, inf_start.queue)
    IN  /\ s.ret = inf_ret
        /\ inf_ret = "True" => s.asg = objs[inf_asg]

\* C9: the relation stored for (i, j) is the set of the pairs of the declared
\* domains that satisfy every predicate registered for (i, j), and there is a
\* relation for (i, j) only if one was registered for (i, j).
C9_ConstraintComposition ==
  \A i, j \in Range(variables) :
     LET ps == {p \in Preds : <<i, j, p>> \in applied}
     IN  /\ j \in DOMAIN constraints[i] <=> ps # {}
         /\ ps # {} =>
              constraints[i][j] =
                {pair \in Range(domains[i]) \X Range(domains[j]) :
                   \A p \in ps : Holds(p, pair[1], pair[2])}

\* two predicates are registered for one ordered pair, none for its reverse,
\* and pairs are left
C9_Witness ==
  \E i, j \in Range(variables) :
     /\ Cardinality({p \in Preds : <<i, j, p>> \in applied}) >= 2
     /\ i \notin DOMAIN constraints[j]
     /\ constraints[i][j] # {}
     /\ constraints[i][j] # Range(domains[i]) \X Range(domains[j])

\* an inference call that returned True left its work-set empty; one that
\* returned False left an empty domain
EnforceEnds ==
  pc = "returned" =>
    /\ inf_ret = "True" => queue_set = {}
    /\ inf_ret = "False" => \E v \in Range(variables) : Len(objs[inf_asg][v]) = 0

\* a nested invocation has fewer undecided variables than its caller, and
\* the nesting below the outermost invocation is at most the number of
\* variables deep
RecursionBound ==
  /\ Len(stack) - 1 <= Len(variables)
  /\ \A k \in 1..(Len(stack) - 1) :
        Undecided(objs[stack[k + 1].asg]) < Undecided(objs[stack[k].asg])

\* C10: with both directions registered solve returns; an inference call
\* that returned True left its work-set empty and one that returned False
\* left an empty domain; a nested backtrack invocation has fewer undecided
\* variables than its caller, and the nesting is at most the number of
\* variables deep.
C10_Termination ==
  /\ [](EnforceEnds /\ RecursionBound)
  /\ [](((pc \notin {"build", "done"}) /\ BothDirections) => <>(pc = "done"))

\* solve has returned on a store whose arcs are registered in both
\* directions, after nested invocations of which one failed
C10_Witness ==
  /\ pc = "done"
  /\ BothDirections
  /\ get_all_arcs # {}
  /\ backtrack_called >= 3
  /\ backtrack_failed >= 1

====
